---- MODULE Spec2Model ----
(***************************************************************************)
(* strref: the Str value type (Static reference | Arc<String>), its        *)
(* conversions (IntoStr, ToStr), clone, duplicate, drop, and the           *)
(* comparison / hashing impls, over an explicit heap of Strings.  A heap    *)
(* cell is one String; Arc::new / Rc::new box it in place (kind, strong).  *)
(***************************************************************************)
EXTENDS Naturals, Sequences, FiniteSets

\* ------------------------------------------------------------------ bounds
NSlots == 2       \* local variables of the calling code
MaxAddr == 2      \* heap Strings alive at once
MaxLen == 1       \* length of a runtime-built String
MaxObsLen == 2    \* length of the texts compared and hashed

Slot == 1..NSlots
Addr == 1..MaxAddr

RECURSIVE SeqsUpTo(_, _)
SeqsUpTo(C, n) ==
  IF n = 0 THEN {<<>>}
  ELSE LET S == SeqsUpTo(C, n - 1)
       IN  S \cup {Append(s, c) : s \in {t \in S : Len(t) = n - 1}, c \in C}

\* Bytes pushed onto runtime Strings, and the texts they are built from.
Chars == {97}
Texts == SeqsUpTo(Chars, MaxLen)
ObsTexts == SeqsUpTo({97, 98}, MaxObsLen)

\* The compiled-in string constants; a &'static str is an index into them.
Literals == << <<>>, <<97>>, <<98>> >>
Lit == 1..Len(Literals)

\* ------------------------------------------------------------------- state
\* heap: the heap Strings, by address. A String is owned by a local (kind
\*       "string") or has been moved into an Arc or Rc box (kind "arc",
\*       "rc"), which carries the reference count; the box is identified
\*       with the String it holds.
\* vals: the caller's locals: a Str (static | shared), an Arc<String>, an
\*       Rc<String>, a String, or nothing.
\* born: for each boxed String, the text it held when it was boxed.
\* last: the operation that ran last, and the locals it read and wrote.
\* res:  what the last comparison, hash or view was given and returned.
VARIABLES heap, vals, born, last, res
vars == <<heap, vals, born, last, res>>

FreeCell == [kind |-> "free", text |-> <<>>, strong |-> 0]
StringCell(t) == [kind |-> "string", text |-> t, strong |-> 0]

NoVal == [tag |-> "none", ref |-> 0]
StaticVal(l) == [tag |-> "static", ref |-> l]
SharedVal(a) == [tag |-> "shared", ref |-> a]
ArcVal(a) == [tag |-> "arc", ref |-> a]
RcVal(a) == [tag |-> "rc", ref |-> a]
StringVal(p) == [tag |-> "string", ref |-> p]

Op(name, s, d) == [op |-> name, src |-> s, dst |-> d]
NoRes == [arg |-> <<>>, b |-> FALSE, o |-> "none", h |-> <<>>]

FreeAddrs(h) == {a \in Addr : h[a].kind = "free"}
IsStr(v) == v.tag \in {"static", "shared"}

\* ---------------------------------------------------- std: String, Arc, Rc
StringText(h, p) == h[p].text
\* String::as_ptr: a String built from the empty text has capacity 0 and owns
\* no buffer; its pointer is the dangling one, whichever String it is.
StringAddr(h, p) ==
  IF h[p].text = <<>> THEN [region |-> "dangling", off |-> 0]
  ELSE [region |-> "heap", off |-> p]

StringNew(h, p, t) == [h EXCEPT ![p] = StringCell(t)]
StringDrop(h, p) == [h EXCEPT ![p] = FreeCell]

\* Arc::new / Rc::new: the String is moved into the box, its buffer stays.
ArcNew(h, p) == [h EXCEPT ![p].kind = "arc", ![p].strong = 1]
RcNew(h, p) == [h EXCEPT ![p].kind = "rc", ![p].strong = 1]
CountInc(h, a) == [h EXCEPT ![a].strong = @ + 1]
\* Dropping one handle of a box: the last one frees the box and its String.
CountDec_free(h, a) == [h EXCEPT ![a] = FreeCell]
CountDec(h, a) ==
  IF h[a].strong > 1 THEN [h EXCEPT ![a].strong = @ - 1]
  ELSE [h EXCEPT ![a] = FreeCell]

\* ------------------------------------------------------------ borrow_str
Arc_borrow_str(h, a) == StringText(h, a)
Rc_borrow_str(h, a) == StringText(h, a)
String_borrow_str(h, p) == StringText(h, p)
static_borrow_str(l) == Literals[l]

Str_borrow_str(h, v) ==
  IF v.tag = "shared" THEN Arc_borrow_str(h, v.ref) ELSE static_borrow_str(v.ref)

Str_deref(h, v) ==
  IF v.tag = "shared" THEN StringText(h, v.ref) ELSE Literals[v.ref]

\* The address of the viewed text (str::as_ptr through Deref).
Str_as_ptr(h, v) ==
  IF v.tag = "shared" THEN StringAddr(h, v.ref)
  ELSE [region |-> "static", off |-> v.ref]

\* ---------------------------------------------- primitive str: eq, cmp, hash
str_eq(s1, s2) ==
  Len(s1) = Len(s2) /\ \A i \in 1..Len(s1) : s1[i] = s2[i]

Min(a, b) == IF a < b THEN a ELSE b

RECURSIVE str_cmp_from(_, _, _)
str_cmp_from(s1, s2, i) ==
  IF i > Min(Len(s1), Len(s2))
  THEN IF Len(s1) < Len(s2) THEN "Less"
       ELSE IF Len(s1) > Len(s2) THEN "Greater" ELSE "Equal"
  ELSE IF s1[i] < s2[i] THEN "Less"
       ELSE IF s1[i] > s2[i] THEN "Greater"
       ELSE str_cmp_from(s1, s2, i + 1)

str_cmp(s1, s2) == str_cmp_from(s1, s2, 1)

\* A Hasher is the sequence of bytes written to it; str writes its bytes
\* and then 0xff.
str_hash(st, s) == st \o s \o <<255>>

\* ------------------------------------------------- Str: eq, cmp, hash, fmt
Eq_str_Str(s, h, other) == str_eq(s, Str_borrow_str(h, other))
Eq_static_Str(l, h, other) == str_eq(Literals[l], Str_borrow_str(h, other))
Eq_Str_str(h, self, s) == str_eq(Str_borrow_str(h, self), s)
Eq_Str_Str_derived(h, self, other) ==
  self.tag = other.tag /\ str_eq(Str_borrow_str(h, self), Str_borrow_str(h, other))
Eq_Str_Str(h, self, other) == Eq_Str_str(h, self, Str_borrow_str(h, other))

Str_partial_cmp(h, self, other) ==
  str_cmp(Str_borrow_str(h, self), Str_borrow_str(h, other))
Str_cmp(h, self, other) ==
  str_cmp(Str_borrow_str(h, self), Str_borrow_str(h, other))
Str_hash_derived(st, h, self) ==
  str_hash(Append(st, IF self.tag = "shared" THEN 0 ELSE 1), Str_borrow_str(h, self))
Str_hash(st, h, self) == str_hash(st, Str_borrow_str(h, self))
\* Borrow<str>: a HashMap<Str, _> is looked up by &str; the entry is found
\* when the hashes agree and the borrowed key equals the slice.
Str_borrow(h, self) == Str_borrow_str(h, self)
Map_get(h, key, s) ==
  /\ Str_hash(<<>>, h, key) = str_hash(<<>>, s)
  /\ str_eq(Str_borrow(h, key), s)

Str_fmt(f, h, self) ==
  IF self.tag = "shared" THEN f \o StringText(h, self.ref)
  ELSE f \o Literals[self.ref]

\* ------------------------------------------------------------------ Init
Init ==
  /\ heap = [a \in Addr |-> FreeCell]
  /\ vals = [s \in Slot |-> NoVal]
  /\ born = [a \in Addr |-> <<>>]
  /\ last = Op("init", 0, 0)
  /\ res = NoRes

Born(h2) ==
  [a \in Addr |->
     IF h2[a].kind \in {"arc", "rc"}
     THEN IF heap[a].kind = h2[a].kind THEN born[a] ELSE h2[a].text
     ELSE <<>>]

\* One step of the calling code: the heap and the locals after it, and
\* what ran.
Step(h2, v2, o) ==
  /\ heap' = h2
  /\ vals' = v2
  /\ born' = Born(h2)
  /\ last' = o
  /\ res' = NoRes

\* ------------------------------------------------- the caller's own values
\* let s = text.to_string()
NewString(d, t) ==
  /\ vals[d] = NoVal
  /\ \E p \in FreeAddrs(heap) :
       Step(StringNew(heap, p, t), [vals EXCEPT ![d] = StringVal(p)],
          Op("String::from", 0, d))

\* s.push(c): the buffer grows in place, or the allocator moves it
PushChar(s, c) ==
  /\ vals[s].tag = "string"
  /\ Len(StringText(heap, vals[s].ref)) < MaxLen
  /\ LET p == vals[s].ref
         t == Append(StringText(heap, p), c)
     IN  \/ Step([heap EXCEPT ![p].text = t], vals,
          Op("String::push", s, s))
         \/ \E p2 \in FreeAddrs(heap) :
              Step(StringNew(StringDrop(heap, p), p2, t),
                   [vals EXCEPT ![s] = StringVal(p2)],
          Op("String::push", s, s))

\* let arc = Arc::new(s)
NewArc(s) ==
  /\ vals[s].tag = "string"
  /\ Step(ArcNew(heap, vals[s].ref), [vals EXCEPT ![s] = ArcVal(vals[s].ref)],
          Op("Arc::new", s, s))

\* let rc = Rc::new(s)
NewRc(s) ==
  /\ vals[s].tag = "string"
  /\ Step(RcNew(heap, vals[s].ref), [vals EXCEPT ![s] = RcVal(vals[s].ref)],
          Op("Rc::new", s, s))

\* let rc2 = rc.clone()
CloneRc(s, d) ==
  /\ vals[s].tag = "rc"
  /\ vals[d] = NoVal
  /\ Step(CountInc(heap, vals[s].ref), [vals EXCEPT ![d] = vals[s]],
          Op("Rc::clone", s, d))

\* ----------------------------------------------------------------- IntoStr
IntoStr_Str(s) ==
  /\ IsStr(vals[s])
  /\ Step(heap, vals,
          Op("Str::into_str", s, s))

IntoStr_String_copy(s) ==
  /\ vals[s].tag = "string"
  /\ \E p \in FreeAddrs(heap) :
       Step(StringDrop(ArcNew(StringNew(heap, p, String_borrow_str(heap, vals[s].ref)), p),
                       vals[s].ref),
            [vals EXCEPT ![s] = SharedVal(p)],
            Op("String::into_str", s, s))

IntoStr_String(s) ==
  /\ vals[s].tag = "string"
  /\ Step(ArcNew(heap, vals[s].ref), [vals EXCEPT ![s] = SharedVal(vals[s].ref)],
          Op("String::into_str", s, s))

IntoStr_RefString(s, d) ==
  /\ vals[s].tag = "string"
  /\ vals[d] = NoVal
  /\ \E p \in FreeAddrs(heap) :
       Step(ArcNew(StringNew(heap, p, String_borrow_str(heap, vals[s].ref)), p),
            [vals EXCEPT ![d] = SharedVal(p)],
          Op("&String::into_str", s, d))

IntoStr_Arc_inc(s) ==
  /\ vals[s].tag = "arc"
  /\ Step(CountInc(heap, vals[s].ref), [vals EXCEPT ![s] = SharedVal(vals[s].ref)],
          Op("Arc::into_str", s, s))

IntoStr_Arc(s) ==
  /\ vals[s].tag = "arc"
  /\ Step(heap, [vals EXCEPT ![s] = SharedVal(vals[s].ref)],
          Op("Arc::into_str", s, s))

IntoStr_Rc_steal(s) ==
  /\ vals[s].tag = "rc"
  /\ heap[vals[s].ref].strong = 1
  /\ Step(ArcNew(heap, vals[s].ref), [vals EXCEPT ![s] = SharedVal(vals[s].ref)],
          Op("Rc::into_str", s, s))

\* The clone and the new Arc are made while self is alive; self is dropped
\* when the function returns.
IntoStr_Rc(s) ==
  /\ vals[s].tag = "rc"
  /\ \E p \in FreeAddrs(heap) :
       Step(CountDec(ArcNew(StringNew(heap, p, Rc_borrow_str(heap, vals[s].ref)), p),
                     vals[s].ref),
            [vals EXCEPT ![s] = SharedVal(p)],
          Op("Rc::into_str", s, s))

IntoStr_static(d, l) ==
  /\ vals[d] = NoVal
  /\ Step(heap, [vals EXCEPT ![d] = StaticVal(l)],
          Op("&'static str::into_str", 0, d))

\* ------------------------------------------------------------ Clone, ToStr
Str_clone_copy(s, d) ==
  /\ IsStr(vals[s])
  /\ vals[d] = NoVal
  /\ \E p \in FreeAddrs(heap) :
       Step(ArcNew(StringNew(heap, p, Str_borrow_str(heap, vals[s])), p),
            [vals EXCEPT ![d] = SharedVal(p)],
            Op("Str::clone", s, d))

Str_clone(s, d) ==
  /\ IsStr(vals[s])
  /\ vals[d] = NoVal
  /\ Step(IF vals[s].tag = "shared" THEN CountInc(heap, vals[s].ref) ELSE heap,
          [vals EXCEPT ![d] = vals[s]],
          Op("Str::clone", s, d))

ToStr_Str_copy(s, d) ==
  /\ IsStr(vals[s])
  /\ vals[d] = NoVal
  /\ \E p \in FreeAddrs(heap) :
       Step(ArcNew(StringNew(heap, p, Str_borrow_str(heap, vals[s])), p),
            [vals EXCEPT ![d] = SharedVal(p)],
            Op("Str::to_str", s, d))

ToStr_Str(s, d) ==
  /\ IsStr(vals[s])
  /\ vals[d] = NoVal
  /\ Step(IF vals[s].tag = "shared" THEN CountInc(heap, vals[s].ref) ELSE heap,
          [vals EXCEPT ![d] = vals[s]],
          Op("Str::to_str", s, d))

ToStr_Arc_copy(s, d) ==
  /\ vals[s].tag = "arc"
  /\ vals[d] = NoVal
  /\ \E p \in FreeAddrs(heap) :
       Step(ArcNew(StringNew(heap, p, Arc_borrow_str(heap, vals[s].ref)), p),
            [vals EXCEPT ![d] = SharedVal(p)],
            Op("Arc::to_str", s, d))

ToStr_Arc(s, d) ==
  /\ vals[s].tag = "arc"
  /\ vals[d] = NoVal
  /\ Step(CountInc(heap, vals[s].ref), [vals EXCEPT ![d] = SharedVal(vals[s].ref)],
          Op("Arc::to_str", s, d))

ToStr_static(d, l) ==
  /\ vals[d] = NoVal
  /\ Step(heap, [vals EXCEPT ![d] = StaticVal(l)],
          Op("&'static str::to_str", 0, d))

\* --------------------------------------------------------------- duplicate
Str_duplicate_alias(s, d) ==
  /\ vals[s].tag = "shared"
  /\ vals[d] = NoVal
  /\ Step(heap, [vals EXCEPT ![d] = StringVal(vals[s].ref)],
          Op("Str::duplicate", s, d))

Str_duplicate(s, d) ==
  /\ IsStr(vals[s])
  /\ vals[d] = NoVal
  /\ \E p \in FreeAddrs(heap) :
       Step(StringNew(heap, p, Str_borrow_str(heap, vals[s])),
            [vals EXCEPT ![d] = StringVal(p)],
          Op("Str::duplicate", s, d))

\* -------------------------------------------------------------------- drop
Drop_Str(s) ==
  /\ IsStr(vals[s])
  /\ Step(IF vals[s].tag = "shared" THEN CountDec(heap, vals[s].ref) ELSE heap,
          [vals EXCEPT ![s] = NoVal],
          Op("drop Str", s, 0))

Drop_Arc(s) ==
  /\ vals[s].tag = "arc"
  /\ Step(CountDec(heap, vals[s].ref), [vals EXCEPT ![s] = NoVal],
          Op("drop Arc", s, 0))

Drop_Rc(s) ==
  /\ vals[s].tag = "rc"
  /\ Step(CountDec(heap, vals[s].ref), [vals EXCEPT ![s] = NoVal],
          Op("drop Rc", s, 0))

Drop_String(s) ==
  /\ vals[s].tag = "string"
  /\ Step(StringDrop(heap, vals[s].ref), [vals EXCEPT ![s] = NoVal],
          Op("drop String", s, 0))

\* ------------------------------------------------------------ observations
\* The operations that take &self and return a value: nothing but res changes.
Observe(o, r) ==
  /\ UNCHANGED <<heap, vals, born>>
  /\ last' = o
  /\ res' = r

Do_borrow_str(s) ==
  /\ IsStr(vals[s])
  /\ Observe(Op("borrow_str", s, 0),
             [NoRes EXCEPT !.h = Str_borrow_str(heap, vals[s])])

Do_deref(s) ==
  /\ IsStr(vals[s])
  /\ Observe(Op("deref", s, 0),
             [NoRes EXCEPT !.h = Str_deref(heap, vals[s])])

\* format!("f{}", v)
Do_fmt(s) ==
  /\ IsStr(vals[s])
  /\ Observe(Op("fmt", s, 0),
             [NoRes EXCEPT !.h = Str_fmt(<<102>>, heap, vals[s])])

Do_hash(s) ==
  /\ IsStr(vals[s])
  /\ Observe(Op("hash", s, 0),
             [NoRes EXCEPT !.h = Str_hash(<<>>, heap, vals[s])])

Do_eq_Str_Str(s, d) ==
  /\ IsStr(vals[s]) /\ IsStr(vals[d])
  /\ Observe(Op("Str == Str", s, d),
             [NoRes EXCEPT !.b = Eq_Str_Str(heap, vals[s], vals[d])])

Do_eq_Str_str(s, t) ==
  /\ IsStr(vals[s])
  /\ Observe(Op("Str == str", s, 0),
             [NoRes EXCEPT !.arg = t,
                           !.b = Eq_Str_str(heap, vals[s], t)])

Do_eq_str_Str(t, s) ==
  /\ IsStr(vals[s])
  /\ Observe(Op("str == Str", 0, s),
             [NoRes EXCEPT !.arg = t,
                           !.b = Eq_str_Str(t, heap, vals[s])])

Do_eq_static_Str(l, s) ==
  /\ IsStr(vals[s])
  /\ Observe(Op("&'static str == Str", 0, s),
             [NoRes EXCEPT !.arg = Literals[l],
                           !.b = Eq_static_Str(l, heap, vals[s])])

Do_partial_cmp(s, d) ==
  /\ IsStr(vals[s]) /\ IsStr(vals[d])
  /\ Observe(Op("partial_cmp", s, d),
             [NoRes EXCEPT !.o = Str_partial_cmp(heap, vals[s], vals[d])])

Do_cmp(s, d) ==
  /\ IsStr(vals[s]) /\ IsStr(vals[d])
  /\ Observe(Op("cmp", s, d),
             [NoRes EXCEPT !.o = Str_cmp(heap, vals[s], vals[d])])

\* -------------------------------------------------------------------- Next
Next ==
  \/ \E d \in Slot, t \in Texts : NewString(d, t)
  \/ \E s \in Slot, c \in Chars : PushChar(s, c)
  \/ \E s \in Slot : NewArc(s)
  \/ \E s \in Slot : NewRc(s)
  \/ \E s, d \in Slot : CloneRc(s, d)
  \/ \E s \in Slot : IntoStr_Str(s)
  \/ \E s \in Slot : IntoStr_String(s)
  \/ \E s, d \in Slot : IntoStr_RefString(s, d)
  \/ \E s \in Slot : IntoStr_Arc(s)
  \/ \E s \in Slot : IntoStr_Rc(s)
  \/ \E d \in Slot, l \in Lit : IntoStr_static(d, l)
  \/ \E s, d \in Slot : Str_clone(s, d)
  \/ \E s, d \in Slot : ToStr_Str(s, d)
  \/ \E s, d \in Slot : ToStr_Arc(s, d)
  \/ \E d \in Slot, l \in Lit : ToStr_static(d, l)
  \/ \E s, d \in Slot : Str_duplicate(s, d)
  \/ \E s \in Slot : Drop_Str(s)
  \/ \E s \in Slot : Drop_Arc(s)
  \/ \E s \in Slot : Drop_Rc(s)
  \/ \E s \in Slot : Drop_String(s)

Spec == Init /\ [][Next]_vars

\* ----------------------------------------- comparing and hashing two values
\* Two Str values of any variant: static, shared on Strings of their own, or
\* shared on one String.
ArcCell(t, n) == [kind |-> "arc", text |-> t, strong |-> n]

ObsHeap(c1, c2) ==
  [a \in Addr |-> IF a = 1 THEN c1 ELSE IF a = 2 THEN c2 ELSE FreeCell]
ObsVals(v1, v2) ==
  [s \in Slot |-> IF s = 1 THEN v1 ELSE IF s = 2 THEN v2 ELSE NoVal]

InitObs ==
  /\ last = Op("init", 0, 0)
  /\ res = NoRes
  /\ \/ \E l1, l2 \in Lit :
          /\ heap = ObsHeap(FreeCell, FreeCell)
          /\ vals = ObsVals(StaticVal(l1), StaticVal(l2))
     \/ \E t1 \in ObsTexts, l2 \in Lit :
          /\ heap = ObsHeap(ArcCell(t1, 1), FreeCell)
          /\ vals = ObsVals(SharedVal(1), StaticVal(l2))
     \/ \E l1 \in Lit, t2 \in ObsTexts :
          /\ heap = ObsHeap(FreeCell, ArcCell(t2, 1))
          /\ vals = ObsVals(StaticVal(l1), SharedVal(2))
     \/ \E t1, t2 \in ObsTexts :
          /\ heap = ObsHeap(ArcCell(t1, 1), ArcCell(t2, 1))
          /\ vals = ObsVals(SharedVal(1), SharedVal(2))
     \/ \E t1 \in ObsTexts :
          /\ heap = ObsHeap(ArcCell(t1, 2), FreeCell)
          /\ vals = ObsVals(SharedVal(1), SharedVal(1))
  /\ born = [a \in Addr |-> heap[a].text]

NextObs ==
  \/ \E s \in Slot : Do_borrow_str(s)
  \/ \E s \in Slot : Do_deref(s)
  \/ \E s \in Slot : Do_fmt(s)
  \/ \E s \in Slot : Do_hash(s)
  \/ \E s, d \in Slot : Do_eq_Str_Str(s, d)
  \/ \E s \in Slot, t \in ObsTexts : Do_eq_Str_str(s, t)
  \/ \E s \in Slot, t \in ObsTexts : Do_eq_str_Str(t, s)
  \/ \E s \in Slot, l \in Lit : Do_eq_static_Str(l, s)
  \/ \E s, d \in Slot : Do_partial_cmp(s, d)
  \/ \E s, d \in Slot : Do_cmp(s, d)

SpecObs == InitObs /\ [][NextObs]_vars

\* ================================================================== claims
\* The locals that hold a handle of the Arc box at a.
ArcHandles(a) == {s \in Slot : vals[s].tag \in {"shared", "arc"} /\ vals[s].ref = a}
RcHandles(a) == {s \in Slot : vals[s].tag = "rc" /\ vals[s].ref = a}
\* The heap Strings a step allocates.
NewCells == {p \in Addr : heap[p].kind = "free" /\ heap'[p].kind # "free"}
\* Those of them that own a buffer: a String with a text has one.
NewBuffers == {p \in NewCells : heap'[p].text # <<>>}
TextOf(v) == IF v.tag = "shared" THEN heap[v.ref].text ELSE Literals[v.ref]

\* C1: a == b for two Str values, of any variants and on any allocations, is
\* equality of their texts; Str == str and str == Str (and &'static str ==
\* Str) agree, and are true exactly when the text of the Str is the slice.
C1_EqIsTextEq ==
  /\ \A s, d \in Slot :
       IsStr(vals[s]) /\ IsStr(vals[d]) =>
         (Eq_Str_Str(heap, vals[s], vals[d]) <=> TextOf(vals[s]) = TextOf(vals[d]))
  /\ \A s \in Slot : IsStr(vals[s]) =>
       /\ \A t \in ObsTexts :
            /\ Eq_Str_str(heap, vals[s], t) <=> TextOf(vals[s]) = t
            /\ Eq_str_Str(t, heap, vals[s]) <=> Eq_Str_str(heap, vals[s], t)
       /\ \A l \in Lit :
            Eq_static_Str(l, heap, vals[s]) <=> TextOf(vals[s]) = Literals[l]
  /\ last.op = "Str == Str" =>
       (res.b <=> TextOf(vals[last.src]) = TextOf(vals[last.dst]))
  /\ last.op = "Str == str" => (res.b <=> TextOf(vals[last.src]) = res.arg)
  /\ last.op \in {"str == Str", "&'static str == Str"} =>
       (res.b <=> TextOf(vals[last.dst]) = res.arg)

\* A static Str and a shared Str with the same non-empty text compared equal.
C1_Witness ==
  /\ last.op = "Str == Str"
  /\ res.b
  /\ vals[last.src].tag = "static"
  /\ vals[last.dst].tag = "shared"
  /\ TextOf(vals[last.src]) # <<>>

\* C2: the text of every boxed String, and so of every live Str, is the text
\* it had when it was made, whatever ran since.
C2_Immutable ==
  /\ \A a \in Addr : heap[a].kind \in {"arc", "rc"} => heap[a].text = born[a]
  /\ \A s \in Slot :
       /\ vals[s].tag \in {"shared", "arc"} => heap[vals[s].ref].kind = "arc"
       /\ vals[s].tag = "rc" => heap[vals[s].ref].kind = "rc"

\* A String was pushed onto while a shared Str was alive.
C2_Witness ==
  /\ last.op = "String::push"
  /\ \E d \in Slot : vals[d].tag = "shared"

\* C3: clone copies no text: a static Str gives a static Str on the same
\* reference and leaves the heap alone; a shared Str gives a shared Str on
\* the same String, whose count goes up by one; nothing is allocated and no
\* other String changes.
C3_CloneShares ==
  [][last'.op = "Str::clone" =>
       LET s == last'.src
           d == last'.dst
       IN  /\ vals' = [vals EXCEPT ![d] = vals[s]]
           /\ Str_as_ptr(heap', vals'[d]) = Str_as_ptr(heap, vals[s])
           /\ NewCells = {}
           /\ vals[s].tag = "static" => heap' = heap
           /\ vals[s].tag = "shared" =>
                heap' = [heap EXCEPT ![vals[s].ref].strong = heap[vals[s].ref].strong + 1]
    ]_vars

C3_Witness ==
  /\ last.op = "Str::clone"
  /\ vals[last.src].tag = "shared"
  /\ vals[last.dst] = vals[last.src]
  /\ heap[vals[last.src].ref].strong = 2

\* C4: an Arc box is alive exactly while some Str or Arc handle points at it,
\* its count is the number of those handles, and a step frees it exactly
\* when it drops the last of them.
RefCountsExact ==
  \A a \in Addr :
    /\ heap[a].kind = "arc" =>
         heap[a].strong = Cardinality(ArcHandles(a)) /\ heap[a].strong > 0
    /\ heap[a].kind # "arc" => ArcHandles(a) = {}

C4_FreedAtLastDrop ==
  [][/\ RefCountsExact
     /\ RefCountsExact'
     /\ \A a \in Addr : heap[a].kind = "arc" =>
          (heap'[a].kind # "arc" <=>
             /\ heap[a].strong = 1
             /\ \E s \in ArcHandles(a) : vals'[s] = NoVal)
    ]_vars

\* One of two Str on one String was dropped; the String is still alive.
C4_Witness ==
  /\ last.op = "drop Str"
  /\ \E s \in Slot : vals[s].tag = "shared" /\ heap[vals[s].ref].strong = 1
  /\ \A a \in Addr : heap[a].kind # "free" => ArcHandles(a) # {}

\* C5: into_str of a String gives a shared Str with the same text at the
\* same address: the String is moved into the new box (count 1), no String
\* is allocated and no text is copied.
C5_StringMoved ==
  [][last'.op = "String::into_str" =>
       LET s == last'.src
       IN  /\ vals'[s].tag = "shared"
           /\ Str_borrow_str(heap', vals'[s]) = String_borrow_str(heap, vals[s].ref)
           /\ Str_as_ptr(heap', vals'[s]) = StringAddr(heap, vals[s].ref)
           /\ NewCells = {}
           /\ heap'[vals'[s].ref].strong = 1
    ]_vars

C5_Witness ==
  /\ last.op = "String::into_str"
  /\ vals[last.src].tag = "shared"
  /\ Str_as_ptr(heap, vals[last.src]).region = "heap"

\* C6 as claimed: into_str of an Arc<String> wraps the same allocation and
\* raises its count by one.
C6_CountRaised ==
  [][last'.op = "Arc::into_str" =>
       LET s == last'.src
       IN  /\ vals'[s] = SharedVal(vals[s].ref)
           /\ heap'[vals[s].ref].strong = heap[vals[s].ref].strong + 1
    ]_vars

\* C6: into_str of an Arc<String> gives a shared Str on the same box, at the
\* same address; no text is copied, nothing is allocated, and the count is
\* what it was: the handle passed in is the handle the Str holds.
C6_ArcWrapped ==
  [][last'.op = "Arc::into_str" =>
       LET s == last'.src
       IN  /\ vals'[s] = SharedVal(vals[s].ref)
           /\ Str_as_ptr(heap', vals'[s]) = StringAddr(heap, vals[s].ref)
           /\ Str_borrow_str(heap', vals'[s]) = Arc_borrow_str(heap, vals[s].ref)
           /\ NewCells = {}
           /\ heap' = heap
    ]_vars

C6_Witness ==
  /\ last.op = "Arc::into_str"
  /\ vals[last.src].tag = "shared"
  /\ Str_as_ptr(heap, vals[last.src]).region = "heap"

\* C7 as claimed: into_str of an Rc<String> gives a shared Str with the same
\* text on a new allocation, at an address other than the source's.
C7_AddressDiffers ==
  [][last'.op = "Rc::into_str" =>
       LET s == last'.src
       IN  /\ vals'[s].tag = "shared"
           /\ Str_borrow_str(heap', vals'[s]) = Rc_borrow_str(heap, vals[s].ref)
           /\ vals'[s].ref \in NewCells
           /\ Str_as_ptr(heap', vals'[s]) # StringAddr(heap, vals[s].ref)
    ]_vars

\* C7: into_str of an Rc<String> gives a shared Str with the same text on a
\* new String with a count of its own, never the Rc's; its address is other
\* than the source's whenever the text is not empty (an empty String owns no
\* buffer: source and copy both report the dangling address).
C7_RcCopied ==
  [][last'.op = "Rc::into_str" =>
       LET s == last'.src
           r == vals[s].ref
       IN  /\ vals'[s].tag = "shared"
           /\ Str_borrow_str(heap', vals'[s]) = Rc_borrow_str(heap, r)
           /\ vals'[s].ref \in NewCells
           /\ vals'[s].ref # r
           /\ heap'[vals'[s].ref].kind = "arc"
           /\ heap'[vals'[s].ref].strong = 1
           /\ heap'[r].kind # "arc"
           /\ Rc_borrow_str(heap, r) # <<>> =>
                Str_as_ptr(heap', vals'[s]) # StringAddr(heap, r)
           /\ heap[r].strong > 1 =>
                heap'[r] = [heap[r] EXCEPT !.strong = heap[r].strong - 1]
    ]_vars

\* An Rc with a non-empty text was converted while another Rc handle kept
\* the source alive.
C7_Witness ==
  /\ last.op = "Rc::into_str"
  /\ vals[last.src].tag = "shared"
  /\ TextOf(vals[last.src]) # <<>>
  /\ \E d \in Slot, a \in Addr :
       /\ vals[d] = RcVal(a)
       /\ heap[a].text = TextOf(vals[last.src])

\* C8 as claimed: to_str of a source that is not static allocates a new
\* String for its result, at another address, and changes no count.
C8_AlwaysAllocates ==
  [][last'.op \in {"Str::to_str", "Arc::to_str"} /\ vals[last'.src].tag # "static" =>
       LET s == last'.src
           d == last'.dst
       IN  /\ vals'[d].tag = "shared"
           /\ vals'[d].ref \in NewCells
           /\ vals'[d].ref # vals[s].ref
           /\ \A a \in Addr : heap[a].kind # "free" => heap'[a] = heap[a]
    ]_vars

\* C8: to_str never allocates and never copies text: of a static source it
\* gives a static Str and leaves the heap alone; of a shared Str or an
\* Arc<String> it gives a shared Str on the same String, at the same
\* address, whose count goes up by one, and no other String changes.
C8_ToStrShares ==
  [][last'.op \in {"Str::to_str", "Arc::to_str", "&'static str::to_str"} =>
       LET s == last'.src
           d == last'.dst
       IN  /\ NewCells = {}
           /\ \A e \in Slot \ {d} : vals'[e] = vals[e]
           /\ IF s = 0 \/ vals[s].tag = "static"
              THEN /\ vals'[d].tag = "static"
                   /\ s # 0 => vals'[d] = vals[s]
                   /\ heap' = heap
              ELSE /\ vals'[d] = SharedVal(vals[s].ref)
                   /\ Str_as_ptr(heap', vals'[d]) = StringAddr(heap, vals[s].ref)
                   /\ heap' = [heap EXCEPT ![vals[s].ref].strong =
                                             heap[vals[s].ref].strong + 1]
    ]_vars

\* to_str of an Arc<String>: the Arc and the Str are two handles of one box.
C8_Witness ==
  /\ last.op = "Arc::to_str"
  /\ vals[last.src].tag = "arc"
  /\ vals[last.dst] = SharedVal(vals[last.src].ref)
  /\ heap[vals[last.src].ref].strong = 2

\* The operations of the type and of its conversion traits that change
\* something.
TypeOps ==
  {"Str::into_str", "String::into_str", "&String::into_str", "Arc::into_str",
   "Rc::into_str", "&'static str::into_str", "Str::clone", "Str::to_str",
   "Arc::to_str", "&'static str::to_str", "Str::duplicate", "drop Str"}
CopyingOps == {"Str::duplicate", "&String::into_str", "Rc::into_str"}
\* The text of the value an operation is called on.
SrcText(v) == IF v.tag = "static" THEN Literals[v.ref] ELSE heap[v.ref].text

\* duplicate gives a String of its own holding the text of the Str, and
\* leaves the Str and every other String as they were.
DuplicateCopies ==
  last'.op = "Str::duplicate" =>
    LET s == last'.src
        d == last'.dst
    IN  /\ vals'[d].tag = "string"
        /\ vals'[d].ref \in NewCells
        /\ String_borrow_str(heap', vals'[d].ref) = Str_borrow_str(heap, vals[s])
        /\ \A a \in Addr : heap[a].kind # "free" => heap'[a] = heap[a]
        /\ \A e \in Slot \ {d} : vals'[e] = vals[e]

\* C9 as claimed: duplicate returns a String of its own holding a copy of
\* the text, and no other operation of the type allocates a buffer holding
\* a copy of a text.
C9_OnlyDuplicateCopies ==
  [][/\ DuplicateCopies
     /\ last'.op \in TypeOps \ {"Str::duplicate"} => NewBuffers = {}
    ]_vars

\* C9: duplicate returns a String of its own holding a copy of the text, in
\* a newly allocated buffer whenever the text is not empty; into_str of a
\* &String and of an Rc<String> copy the text into a new String as well; no
\* other operation of the type makes a new String.
C9_CopiesOnlyWhereStated ==
  [][/\ DuplicateCopies
     /\ last'.op = "Str::duplicate" /\ Str_borrow_str(heap, vals[last'.src]) # <<>> =>
          /\ vals'[last'.dst].ref \in NewBuffers
          /\ StringAddr(heap', vals'[last'.dst].ref) # Str_as_ptr(heap, vals[last'.src])
     /\ last'.op \in CopyingOps =>
          /\ Cardinality(NewCells) = 1
          /\ \A p \in NewCells : heap'[p].text = SrcText(vals[last'.src])
     /\ last'.op \in TypeOps \ CopyingOps => NewCells = {}
    ]_vars

\* A shared Str with a non-empty text was duplicated.
C9_Witness ==
  /\ last.op = "Str::duplicate"
  /\ vals[last.src].tag = "shared"
  /\ vals[last.dst].tag = "string"
  /\ heap[vals[last.dst].ref].text = TextOf(vals[last.src])
  /\ TextOf(vals[last.src]) # <<>>

\* Lexicographic order of two byte sequences, stated by the first position
\* at which they differ.
LexLess(a, b) ==
  \E k \in 1..Len(b) :
    /\ k - 1 <= Len(a)
    /\ \A i \in 1..(k - 1) : a[i] = b[i]
    /\ k = Len(a) + 1 \/ a[k] < b[k]
Lex(a, b) == IF a = b THEN "Equal" ELSE IF LexLess(a, b) THEN "Less" ELSE "Greater"

\* C10: cmp and partial_cmp of two Str values of any variants are the
\* lexicographic order of their texts, Equal exactly when they are ==; the
\* hash of a Str is the hash of the slice with its text, so a key stored as
\* a Str is found by looking up that slice.
C10_OrderAndHash ==
  /\ \A s, d \in Slot :
       IsStr(vals[s]) /\ IsStr(vals[d]) =>
         /\ Str_cmp(heap, vals[s], vals[d]) = Lex(TextOf(vals[s]), TextOf(vals[d]))
         /\ Str_partial_cmp(heap, vals[s], vals[d]) = Str_cmp(heap, vals[s], vals[d])
         /\ Str_cmp(heap, vals[s], vals[d]) = "Equal" <=>
              Eq_Str_Str(heap, vals[s], vals[d])
  /\ \A s \in Slot : IsStr(vals[s]) =>
       \A t \in ObsTexts :
         /\ TextOf(vals[s]) = t =>
              /\ Str_hash(<<>>, heap, vals[s]) = str_hash(<<>>, t)
              /\ Map_get(heap, vals[s], t)
         /\ Map_get(heap, vals[s], t) => TextOf(vals[s]) = t
  /\ last.op \in {"cmp", "partial_cmp"} =>
       res.o = Lex(TextOf(vals[last.src]), TextOf(vals[last.dst]))
  /\ last.op = "hash" => res.h = str_hash(<<>>, TextOf(vals[last.src]))

\* A longer text that sorts first was compared with a shorter one, across
\* the two variants.
C10_Witness ==
  /\ last.op = "cmp"
  /\ res.o = "Less"
  /\ vals[last.src].tag # vals[last.dst].tag
  /\ Len(TextOf(vals[last.src])) > Len(TextOf(vals[last.dst]))
  /\ TextOf(vals[last.dst]) # <<>>

====
